---- MODULE Spec2Model ----
(***************************************************************************)
(* The grid engine of wasm-2048 (src/src/lib.rs): Position, Direction,     *)
(* Tile, Grid and the operations Grid::new, Grid::default,                 *)
(* disable_new_tiles, move_in (prepare_for_move, build_traversal,          *)
(* traverse_from, add_random_tile) and tiles.                              *)
(***************************************************************************)
EXTENDS Integers, Sequences, FiniteSets, TLC

(* ------------------------------------------------------------------ *)
(* Program constants and model bounds                                   *)
(* ------------------------------------------------------------------ *)

\* Side of the grid: the literal 4 of Position::index / is_out_of_bounds.
Side == 4

\* Length of Grid::cells, [Cell; 16].
NumCells == 16

\* Largest integer TLC represents; it stands for the top of the usize
\* range, which is where `(-1i32) as usize` lands (2^32-1 on wasm32,
\* 2^64-1 on a 64-bit host).  Only "is it >= 4" is ever asked of it.
UsizeMax == 2147483647

\* Bound: number of move_in calls made while spawning is enabled.
MaxSpawnMoves == 1

\* Bound: number of move_in calls made on one grid.
MaxMoves == 2

\* Bound: number of spawning move_in calls that may precede disable_new_tiles.
MaxMovesBeforeDisable == 0

\* Bound: number of move_in calls made in a row in one direction.
MaxRepeats == 4

Directions == {"Left", "Right", "Up", "Down"}

Indices == 0 .. (NumCells - 1)

(* ------------------------------------------------------------------ *)
(* Option, Position, Direction                                          *)
(* ------------------------------------------------------------------ *)

\* Option<T>: None is the empty sequence, Some(x) the one-element sequence.
None == << >>

Some(x) == << x >>

\* Direction::as_pair
as_pair(direction) ==
    CASE direction = "Left"  -> [i |-> 0, j |-> -1]
      [] direction = "Right" -> [i |-> 0, j |-> 1]
      [] direction = "Up"    -> [i |-> -1, j |-> 0]
      [] direction = "Down"  -> [i |-> 1, j |-> 0]

\* Position::new
PositionNew(i, j) == [i |-> i, j |-> j]

\* Mutant of from_index: row and column are exchanged.
from_index_transposed(index) == [i |-> index % Side, j |-> index \div Side]

\* Position::from_index
from_index(index) == [i |-> index \div Side, j |-> index % Side]

\* Position::index
index(position) == position.i * Side + position.j

\* Mutant of is_out_of_bounds: the row test is off by one.
is_out_of_bounds_row_off_by_one(position) == position.i > Side \/ position.j >= Side

\* Mutant of is_out_of_bounds: the column test is off by one.
is_out_of_bounds_off_by_one(position) == position.i >= Side \/ position.j > Side

\* Position::is_out_of_bounds
is_out_of_bounds(position) == position.i >= Side \/ position.j >= Side

\* `x as usize` for an i32 x: a negative value wraps to the top of the range.
AsUsize(x) == IF x >= 0 THEN x ELSE UsizeMax + (x + 1)

\* impl Add<Direction> for Position
PositionAdd(position, direction) ==
    LET d == as_pair(direction)
    IN  [i |-> AsUsize(position.i + d.i), j |-> AsUsize(position.j + d.j)]

\* Mutant of build_traversal: no direction reverses an order.
build_traversal_never_reversed(direction) ==
    [k \in 1 .. NumCells |-> PositionNew((k - 1) \div Side, (k - 1) % Side)]

\* Mutant of build_traversal: the rows are reversed for Up, not for Down.
build_traversal_reverses_up(direction) ==
    LET i_traversal == IF direction = "Up" THEN <<3, 2, 1, 0>> ELSE <<0, 1, 2, 3>>
        j_traversal == IF direction = "Right" THEN <<3, 2, 1, 0>> ELSE <<0, 1, 2, 3>>
    IN  [k \in 1 .. NumCells |->
            PositionNew(i_traversal[((k - 1) \div Side) + 1],
                        j_traversal[((k - 1) % Side) + 1])]

\* Direction::build_traversal: rows outer, columns inner; rows reversed for
\* Down, columns reversed for Right.
build_traversal(direction) ==
    LET i_traversal == IF direction = "Down" THEN <<3, 2, 1, 0>> ELSE <<0, 1, 2, 3>>
        j_traversal == IF direction = "Right" THEN <<3, 2, 1, 0>> ELSE <<0, 1, 2, 3>>
    IN  [k \in 1 .. NumCells |->
            PositionNew(i_traversal[((k - 1) \div Side) + 1],
                        j_traversal[((k - 1) % Side) + 1])]

(* ------------------------------------------------------------------ *)
(* Tile and Grid                                                        *)
(* ------------------------------------------------------------------ *)

TileStates == {"New", "Static", "Merged"}

\* Tile::new
TileNew(number) == [number |-> number, state |-> "New", previous_position |-> None]

\* impl PartialEq for Tile: numbers only.
TileEq(a, b) == a.number = b.number

\* [None; 16]
EmptyCells == [x \in Indices |-> None]

\* Grid::get: a checked slice lookup, flattened.
get(cs, position) ==
    IF index(position) < NumCells THEN cs[index(position)] ELSE None

\* Mutant of prepare_for_move: state is reset, previous_position is left.
prepare_states_only(cs) ==
    [x \in Indices |->
        IF cs[x] = None THEN None ELSE Some([cs[x][1] EXCEPT !.state = "Static"])]

\* Mutant of prepare_for_move: previous_position is recorded, state is left.
prepare_positions_only(cs) ==
    [x \in Indices |->
        IF cs[x] = None
        THEN None
        ELSE Some([cs[x][1] EXCEPT !.previous_position = Some(from_index(x))])]

\* Grid::prepare_for_move
prepare_for_move(cs) ==
    [x \in Indices |->
        IF cs[x] = None
        THEN None
        ELSE Some([cs[x][1] EXCEPT !.state = "Static",
                                   !.previous_position = Some(from_index(x))])]

\* Mutant of can_merge: the Merged state of the tile found is not looked at.
can_merge_any(tile, start_tile) == TileEq(tile, start_tile)

\* The merge test of traverse_from: equal numbers, and the tile found was not
\* itself produced by a merge.
can_merge(tile, start_tile) == TileEq(tile, start_tile) /\ tile.state # "Merged"

\* Mutant of merge: the moving tile becomes Merged and keeps its number.
merge_keeps_number(start_tile) == [start_tile EXCEPT !.state = "Merged"]

\* Mutant of merge: the moving tile doubles and its state is left as it is.
merge_keeps_state(start_tile) == [start_tile EXCEPT !.number = start_tile.number * 2]

\* Mutant of merge: the moving tile gains 2, it does not double.
merge_adds_two(start_tile) ==
    [start_tile EXCEPT !.number = start_tile.number + 2, !.state = "Merged"]

\* The merge of traverse_from: the moving tile doubles and becomes Merged.
\* (i32 arithmetic; the numbers of the model stay far below 2^31.)
merge(start_tile) ==
    [start_tile EXCEPT !.number = start_tile.number * 2, !.state = "Merged"]

\* Mutant of walk: the tile goes one cell at most.
walk_one_step(cs, start_tile, new_position, in_direction) ==
    LET next_position == PositionAdd(new_position, in_direction)
    IN  IF is_out_of_bounds(next_position)
        THEN [tile |-> start_tile, position |-> new_position, log |-> << >>]
        ELSE LET found == get(cs, next_position)
             IN  IF found # None
                 THEN IF can_merge(found[1], start_tile)
                      THEN [tile |-> merge(start_tile), position |-> next_position,
                            log |-> << >>]
                      ELSE [tile |-> start_tile, position |-> new_position,
                            log |-> << >>]
                 ELSE [tile |-> start_tile, position |-> next_position, log |-> << >>]

\* One entry of the log of a move: a position and what was done with it.
\* "add": it was produced by Position + Direction; "test": is_out_of_bounds
\* was asked of it; "get": it was handed to Grid::get; "index": it was used in
\* self.cells[position.index()].
Event(event, position) == [event |-> event, position |-> position]

\* The loop of traverse_from: from new_position, step in in_direction.  The
\* result is the tile to place, the position to place it at, and the log of
\* the positions the loop produced, tested and looked up, in order.
RECURSIVE walk(_, _, _, _)
walk(cs, start_tile, new_position, in_direction) ==
    LET next_position == PositionAdd(new_position, in_direction)
        probe == << Event("add", next_position), Event("test", next_position) >>
    IN  IF is_out_of_bounds(next_position)
        THEN [tile |-> start_tile, position |-> new_position, log |-> probe]
        ELSE LET found == get(cs, next_position)
                 looked_up == Append(probe, Event("get", next_position))
             IN  IF found # None
                 THEN IF can_merge(found[1], start_tile)
                      THEN [tile |-> merge(start_tile), position |-> next_position,
                            log |-> looked_up]
                      ELSE [tile |-> start_tile, position |-> new_position,
                            log |-> looked_up]
                 ELSE LET w == walk(cs, start_tile, next_position, in_direction)
                      IN  [w EXCEPT !.log = looked_up \o @]

\* Mutant of traverse_from: the start cell is not cleared.
traverse_from_keeps_start(cs, start_position, in_direction) ==
    LET found == get(cs, start_position)
        first == << Event("get", start_position) >>
    IN  IF found = None
        THEN [cells |-> cs, moved |-> FALSE, log |-> first]
        ELSE LET w == walk(cs, found[1], start_position, in_direction)
             IN  IF start_position = w.position
                 THEN [cells |-> cs, moved |-> FALSE, log |-> first \o w.log]
                 ELSE [cells |-> [cs EXCEPT ![index(w.position)] = Some(w.tile)],
                       moved |-> TRUE,
                       log |-> first \o w.log \o << Event("index", w.position) >>]

\* Mutant of traverse_from: no early return when the tile stays where it is;
\* the cell is rewritten and true is returned.
traverse_from_always_true(cs, start_position, in_direction) ==
    LET found == get(cs, start_position)
        first == << Event("get", start_position) >>
    IN  IF found = None
        THEN [cells |-> cs, moved |-> FALSE, log |-> first]
        ELSE LET w == walk(cs, found[1], start_position, in_direction)
             IN  [cells |-> [y \in Indices |->
                                IF y = index(w.position) THEN Some(w.tile)
                                ELSE IF y = index(start_position) THEN None
                                ELSE cs[y]],
                  moved |-> TRUE,
                  log |-> first \o w.log \o << Event("index", start_position),
                                               Event("index", w.position) >>]

\* Grid::traverse_from: the cells afterwards, the returned flag and the log
\* of the positions it handled.
traverse_from(cs, start_position, in_direction) ==
    LET found == get(cs, start_position)
        first == << Event("get", start_position) >>
    IN  IF found = None
        THEN [cells |-> cs, moved |-> FALSE, log |-> first]
        ELSE LET w == walk(cs, found[1], start_position, in_direction)
             IN  IF start_position = w.position
                 THEN [cells |-> cs, moved |-> FALSE, log |-> first \o w.log]
                 ELSE [cells |-> [cs EXCEPT ![index(start_position)] = None,
                                            ![index(w.position)] = Some(w.tile)],
                       moved |-> TRUE,
                       log |-> first \o w.log \o << Event("index", start_position),
                                                    Event("index", w.position) >>]

\* Mutant of accumulate: `moved = ...`, the last call's flag alone.
accumulate_assign(moved, returned) == returned

\* `moved |= ...` in the loop of move_in.
accumulate(moved, returned) == moved \/ returned

\* The for loop of move_in over the traversal, from its k-th element on.
RECURSIVE traverse_all(_, _, _, _, _, _)
traverse_all(cs, moved, log, traversal, k, direction) ==
    IF k > Len(traversal)
    THEN [cells |-> cs, moved |-> moved, log |-> log]
    ELSE LET r == traverse_from(cs, traversal[k], direction)
         IN  traverse_all(r.cells, accumulate(moved, r.moved), log \o r.log,
                          traversal, k + 1, direction)

\* move_in up to, and not including, the call of add_random_tile.
slide(cs, direction) ==
    traverse_all(prepare_for_move(cs), FALSE, << >>, build_traversal(direction), 1,
                 direction)

\* The numbers a spawned tile can take: 4 when the draw exceeds 0.9, else 2.
SpawnNumbers == {2, 4}

\* Mutant of add_random_tile: enable_new_tiles is not looked at.
add_random_tile_always(cs, enabled) ==
    LET empty_cells == {x \in Indices : cs[x] = None}
    IN  IF empty_cells = {}
        THEN {cs}
        ELSE {[y \in Indices |-> IF y = x THEN Some(TileNew(n)) ELSE cs[y]] :
                 x \in empty_cells, n \in SpawnNumbers}

\* Mutant of add_random_tile: the first empty cell is taken, not a random one.
add_random_tile_first(cs, enabled) ==
    LET empty_cells == {x \in Indices : cs[x] = None}
    IN  IF ~enabled \/ empty_cells = {}
        THEN {cs}
        ELSE {[y \in Indices |->
                  IF y = CHOOSE x \in empty_cells : \A z \in empty_cells : x <= z
                  THEN Some(TileNew(n))
                  ELSE cs[y]] : n \in SpawnNumbers}

\* Mutant of add_random_tile: the cell is chosen among all cells, not the
\* empty ones.
add_random_tile_any_cell(cs, enabled) ==
    IF ~enabled
    THEN {cs}
    ELSE {[y \in Indices |-> IF y = x THEN Some(TileNew(n)) ELSE cs[y]] :
             x \in Indices, n \in SpawnNumbers}

\* Grid::add_random_tile: every grid it can leave behind.
add_random_tile(cs, enabled) ==
    LET empty_cells == {x \in Indices : cs[x] = None}
    IN  IF ~enabled
        THEN {cs}
        ELSE IF empty_cells = {}
             THEN {cs}
             ELSE {[y \in Indices |-> IF y = x THEN Some(TileNew(n)) ELSE cs[y]] :
                      x \in empty_cells, n \in SpawnNumbers}

\* Mutant of ghost: the number is not halved.
ghost_same_number(tile) ==
    [state |-> "Static",
     previous_position |-> tile.previous_position,
     number |-> tile.number]

\* The second entry tiles() yields for a Merged tile.
ghost(tile) ==
    [state |-> "Static",
     previous_position |-> tile.previous_position,
     number |-> tile.number \div 2]

\* Grid::tiles, collected: the entries in iteration order.
RECURSIVE tiles_from(_, _)
tiles_from(cs, x) ==
    IF x >= NumCells
    THEN << >>
    ELSE LET rest == tiles_from(cs, x + 1)
         IN  IF cs[x] = None
             THEN rest
             ELSE LET position == from_index(x)
                      tile == cs[x][1]
                  IN  IF tile.state = "Merged"
                      THEN << <<position, tile>>, <<position, ghost(tile)>> >> \o rest
                      ELSE << <<position, tile>> >> \o rest

tiles(cs) == tiles_from(cs, 0)

(* ------------------------------------------------------------------ *)
(* Grids handed to Grid::new                                            *)
(* ------------------------------------------------------------------ *)

\* tests::make_grid: a Tile::new for every positive number, None otherwise.
make_grid(from_numbers) ==
    [x \in Indices |->
        IF from_numbers[x] > 0 THEN Some(TileNew(from_numbers[x])) ELSE None]

\* The number layout of a grid, 0 for an empty cell (the inverse of make_grid).
Numbers(cs) == [x \in Indices |-> IF cs[x] = None THEN 0 ELSE cs[x][1].number]

\* Numbers a cell of an initial layout may hold.
InitNumbers == {0, 2, 4}

LinePatterns == [0 .. (Side - 1) -> InitNumbers]

\* Layouts whose tiles all lie in one row.
RowLayouts ==
    {[x \in Indices |-> IF x \div Side = r THEN p[x % Side] ELSE 0] :
        r \in 0 .. (Side - 1), p \in LinePatterns}

\* Layouts whose tiles all lie in one column.
ColumnLayouts ==
    {[x \in Indices |-> IF x % Side = c THEN p[x \div Side] ELSE 0] :
        c \in 0 .. (Side - 1), p \in LinePatterns}

\* Rows of the full layouts.
DenseRows == {<<2, 4, 2, 4>>, <<4, 2, 4, 2>>, <<2, 2, 4, 4>>}

\* Layouts without an empty cell: every row is one of DenseRows.
DenseLayouts ==
    {[x \in Indices |-> rows[x \div Side][(x % Side) + 1]] :
        rows \in [0 .. (Side - 1) -> DenseRows]}

InitLayouts == RowLayouts \cup ColumnLayouts \cup DenseLayouts

\* Lines that take several moves in one direction to settle: an 8 to merge
\* into lets a line merge three times in a row.
ChainNumbers == {0, 2, 4, 8}

ChainPatterns == [0 .. (Side - 1) -> ChainNumbers]

ChainRows == {<<2, 2, 4, 8>>, <<8, 4, 2, 2>>, <<2, 2, 2, 2>>}

\* Layouts with one row or one column of ChainNumbers, and full layouts whose
\* rows are ChainRows.
ChainLayouts ==
    {[x \in Indices |-> IF x \div Side = r THEN p[x % Side] ELSE 0] :
        r \in 0 .. (Side - 1), p \in ChainPatterns}
    \cup {[x \in Indices |-> IF x % Side = c THEN p[x \div Side] ELSE 0] :
        c \in 0 .. (Side - 1), p \in ChainPatterns}
    \cup {[x \in Indices |-> rows[x \div Side][(x % Side) + 1]] :
        rows \in [0 .. (Side - 1) -> ChainRows]}

(* ------------------------------------------------------------------ *)
(* State                                                                *)
(* ------------------------------------------------------------------ *)

VARIABLES
    cells,              \* Grid::cells
    enable_new_tiles,   \* Grid::enable_new_tiles
    op,                 \* the last operation run on the grid
    dir,                \* the direction of the last move_in, "None" before one
    before,             \* cells on entry to the last operation
    pre_spawn,          \* cells just before the last add_random_tile call
    moved,              \* the local `moved` of the last move_in
    ret,                \* what tiles() yields to the view drawn after the operation
    spawn_moves,        \* move_in calls made with spawning enabled
    quiet_moves,        \* move_in calls made with spawning disabled
    log,                \* the positions the last move_in handled, in order
    step,               \* start positions done, in a move_in run call by call
    returned            \* what the last traverse_from call returned, there

vars == <<cells, enable_new_tiles, op, dir, before, pre_spawn, moved, ret,
          spawn_moves, quiet_moves, log, step, returned>>

\* Grid::new(cells) on a grid built by make_grid.
InitNew ==
    \E layout \in InitLayouts :
        /\ cells = make_grid(layout)
        /\ enable_new_tiles = TRUE
        /\ op = "new"
        /\ before = cells
        /\ pre_spawn = cells

\* Grid::default(): Grid::new([None; 16]), then add_random_tile twice.
InitDefault ==
    \E first \in add_random_tile(EmptyCells, TRUE) :
        \E second \in add_random_tile(first, TRUE) :
            /\ cells = second
            /\ enable_new_tiles = TRUE
            /\ op = "default"
            /\ before = EmptyCells
            /\ pre_spawn = first

Init ==
    /\ InitNew \/ InitDefault
    /\ dir = "None"
    /\ moved = FALSE
    /\ ret = tiles(cells)
    /\ spawn_moves = 0
    /\ quiet_moves = 0
    /\ log = << >>
    /\ step = 0
    /\ returned = FALSE

\* Grid::disable_new_tiles (a second call would change nothing).
DisableNewTiles ==
    /\ enable_new_tiles
    /\ spawn_moves <= MaxMovesBeforeDisable
    /\ enable_new_tiles' = FALSE
    /\ op' = "disable_new_tiles"
    /\ before' = cells
    /\ pre_spawn' = cells
    /\ ret' = tiles(cells)
    /\ log' = << >>
    /\ UNCHANGED <<cells, dir, moved, spawn_moves, quiet_moves, step, returned>>

\* Grid::move_in, and the view drawn from tiles() afterwards.
MoveIn(direction) ==
    /\ \E r \in {slide(cells, direction)} :
           /\ \E after \in (IF r.moved
                            THEN add_random_tile(r.cells, enable_new_tiles)
                            ELSE {r.cells}) :
                  /\ cells' = after
                  /\ ret' = tiles(after)
           /\ pre_spawn' = r.cells
           /\ moved' = r.moved
           /\ log' = r.log
    /\ before' = cells
    /\ op' = "move"
    /\ dir' = direction
    /\ spawn_moves' = IF enable_new_tiles THEN spawn_moves + 1 ELSE spawn_moves
    /\ quiet_moves' = IF enable_new_tiles THEN quiet_moves ELSE quiet_moves + 1
    /\ UNCHANGED <<enable_new_tiles, step, returned>>

\* A move_in call, within the bounds on the length of a run.
Move(direction) ==
    /\ IF enable_new_tiles
       THEN spawn_moves < MaxSpawnMoves
       ELSE spawn_moves + quiet_moves < MaxMoves
    /\ MoveIn(direction)

MoveLeft == Move("Left")

MoveRight == Move("Right")

MoveUp == Move("Up")

MoveDown == Move("Down")

Next ==
    \/ DisableNewTiles
    \/ MoveLeft
    \/ MoveRight
    \/ MoveUp
    \/ MoveDown

Spec == Init /\ [][Next]_vars

(* ------------------------------------------------------------------ *)
(* move_in, one traverse_from call at a time                            *)
(* ------------------------------------------------------------------ *)

\* move_in(direction) on a grid built by make_grid, at the head of its for
\* loop: prepare_for_move has run, build_traversal has been called, and
\* moved is false.
InitTraverse ==
    \E layout \in InitLayouts, direction \in Directions :
        /\ before = make_grid(layout)
        /\ cells = prepare_for_move(before)
        /\ pre_spawn = cells
        /\ dir = direction
        /\ enable_new_tiles = TRUE
        /\ op = "prepare_for_move"
        /\ moved = FALSE
        /\ ret = tiles(before)
        /\ spawn_moves = 0
        /\ quiet_moves = 0
        /\ log = << >>
        /\ step = 0
        /\ returned = FALSE

\* One turn of the for loop of move_in: traverse_from on the next start
\* position of the traversal, and `moved |= ...`.
TraverseStep ==
    /\ op \in {"prepare_for_move", "traverse_from"}
    /\ step < NumCells
    /\ \E r \in {traverse_from(cells, build_traversal(dir)[step + 1], dir)} :
           /\ cells' = r.cells
           /\ returned' = r.moved
           /\ moved' = accumulate(moved, r.moved)
           /\ log' = r.log
    /\ before' = cells
    /\ step' = step + 1
    /\ op' = "traverse_from"
    /\ UNCHANGED <<enable_new_tiles, dir, pre_spawn, ret, spawn_moves, quiet_moves>>

NextTraverse == TraverseStep

SpecTraverse == InitTraverse /\ [][NextTraverse]_vars

(* ------------------------------------------------------------------ *)
(* One direction, over and over, with spawning disabled                 *)
(* ------------------------------------------------------------------ *)

\* make_grid(layout) followed by disable_new_tiles, as tests::it_works sets
\* a grid up.
InitRepeat ==
    \E layout \in ChainLayouts :
        /\ cells = make_grid(layout)
        /\ enable_new_tiles = FALSE
        /\ op = "disable_new_tiles"
        /\ before = cells
        /\ pre_spawn = cells
        /\ dir = "None"
        /\ moved = FALSE
        /\ ret = tiles(cells)
        /\ spawn_moves = 0
        /\ quiet_moves = 0
        /\ log = << >>
        /\ step = 0
        /\ returned = FALSE

\* move_in(direction), in the direction of the moves made so far.
RepeatMove(direction) ==
    /\ dir \in {"None", direction}
    /\ quiet_moves < MaxRepeats
    /\ MoveIn(direction)

NextRepeat == \E direction \in Directions : RepeatMove(direction)

SpecRepeat == InitRepeat /\ [][NextRepeat]_vars

(* ------------------------------------------------------------------ *)
(* Vocabulary of the properties                                         *)
(* ------------------------------------------------------------------ *)

Occupied(cs) == {x \in Indices : cs[x] # None}

Vacant(cs) == Indices \ Occupied(cs)

RECURSIVE TotalFrom(_, _)
TotalFrom(numbers, x) ==
    IF x >= NumCells THEN 0 ELSE numbers[x] + TotalFrom(numbers, x + 1)

\* The sum of all tile numbers of a grid.
Total(cs) == TotalFrom(Numbers(cs), 0)

\* The cells the last operation's add_random_tile filled.
Spawned == {x \in Indices : pre_spawn[x] = None /\ cells[x] # None}

\* A move_in has just run with spawning enabled / disabled.
SpawningMove == op = "move" /\ enable_new_tiles

QuietMove == op = "move" /\ ~enable_new_tiles

\* Line l (a row for Left/Right, a column for Up/Down) of a number layout,
\* read from the edge the direction points to.
LineOf(numbers, direction, l) ==
    CASE direction = "Left"  -> [k \in 1 .. Side |-> numbers[l * Side + (k - 1)]]
      [] direction = "Right" -> [k \in 1 .. Side |-> numbers[l * Side + (Side - k)]]
      [] direction = "Up"    -> [k \in 1 .. Side |-> numbers[(k - 1) * Side + l]]
      [] direction = "Down"  -> [k \in 1 .. Side |-> numbers[(Side - k) * Side + l]]

NonZero(n) == n # 0

\* Scanning from the head, merge each pair of adjacent equal numbers once.
RECURSIVE MergePairs(_)
MergePairs(line) ==
    IF Len(line) < 2
    THEN line
    ELSE IF line[1] = line[2]
         THEN <<2 * line[1]>> \o MergePairs(Tail(Tail(line)))
         ELSE <<line[1]>> \o MergePairs(Tail(line))

\* The reference 2048 line operator: drop the empty cells, merge pairs from
\* the target edge, pack against the target edge.
RefLine(line) ==
    LET packed == MergePairs(SelectSeq(line, NonZero))
    IN  [k \in 1 .. Side |-> IF k <= Len(packed) THEN packed[k] ELSE 0]

(* ------------------------------------------------------------------ *)
(* Properties                                                           *)
(* ------------------------------------------------------------------ *)

\* C1: with spawning enabled, a move whose slide/merge phase changes the
\* number layout spawns exactly one tile, into a cell that was empty, and a
\* move whose slide/merge phase changes nothing spawns none and leaves the
\* set of occupied cells as it was.
C1_SpawnIffChanged ==
    SpawningMove =>
        IF Numbers(pre_spawn) # Numbers(before)
        THEN /\ Cardinality(Spawned) = 1
             /\ \A x \in Indices \ Spawned : cells[x] = pre_spawn[x]
        ELSE /\ cells = pre_spawn
             /\ Occupied(cells) = Occupied(before)

\* A full grid was moved with spawning enabled, tiles merged, one tile spawned.
C1_Witness ==
    /\ SpawningMove
    /\ Occupied(before) = Indices
    /\ Numbers(pre_spawn) # Numbers(before)
    /\ Cardinality(Spawned) = 1

\* C2: with spawning disabled, each move of a sequence leaves in every line
\* along the direction what the reference line operator gives for that line.
C2_MatchesReference ==
    QuietMove =>
        \A l \in 0 .. (Side - 1) :
            LineOf(Numbers(cells), dir, l) = RefLine(LineOf(Numbers(before), dir, l))

\* The second move of a sequence met a line of four equal numbers and left
\* two merged tiles, not one.
C2_Witness ==
    /\ QuietMove
    /\ quiet_moves = 2
    /\ \E l \in 0 .. (Side - 1) :
           /\ LineOf(Numbers(before), dir, l) = <<2, 2, 2, 2>>
           /\ LineOf(Numbers(cells), dir, l) = <<4, 4, 0, 0>>

\* C3: slides and merges keep the sum of the tile numbers; a move adds to it
\* exactly the number of the tile it spawned, and nothing when it spawned none.
C3_TotalConserved ==
    op = "move" =>
        /\ Total(pre_spawn) = Total(before)
        /\ \A x \in Indices \ Spawned : cells[x] = pre_spawn[x]
        /\ Cardinality(Spawned) <= 1
        /\ Total(cells) = Total(before) + TotalFrom(
               [x \in Indices |-> IF x \in Spawned THEN cells[x][1].number ELSE 0], 0)
        /\ ~enable_new_tiles => Total(cells) = Total(before)

\* A move merged two tiles and spawned a 4.
C3_Witness ==
    /\ op = "move"
    /\ \E x \in Indices : pre_spawn[x] # None /\ pre_spawn[x][1].state = "Merged"
    /\ \E x \in Spawned : cells[x][1].number = 4

\* C4 as stated: a move in which no tile slides or merges leaves every cell
\* with the same tile in every field, and spawns nothing.
C4_NoOpMoveIdentical ==
    (op = "move" /\ Numbers(pre_spawn) = Numbers(before)) => cells = before

\* C4 amended: a move in which no tile slides or merges spawns nothing and
\* leaves every cell's occupancy and number as they were; every tile comes out
\* Static with its own cell as previousPosition.
C4_NoOpMoveKeepsNumbers ==
    (op = "move" /\ Numbers(pre_spawn) = Numbers(before)) =>
        /\ cells = pre_spawn
        /\ ~moved
        /\ \A x \in Indices :
               IF before[x] = None
               THEN cells[x] = None
               ELSE cells[x] = Some([number |-> before[x][1].number,
                                     state |-> "Static",
                                     previous_position |-> Some(from_index(x))])

\* A no-op move ran on a grid holding a tile that was not Static.
C4_Witness ==
    /\ op = "move"
    /\ Numbers(pre_spawn) = Numbers(before)
    /\ \E x \in Indices : before[x] # None /\ before[x][1].state = "Merged"
    /\ cells # before

\* C5: Grid::default() leaves exactly two tiles, in two distinct cells, each
\* with number 2 or 4, state New and no previousPosition, and spawning enabled.
C5_DefaultGrid ==
    op = "default" =>
        /\ Cardinality(Occupied(cells)) = 2
        /\ Cardinality(Vacant(cells)) = NumCells - 2
        /\ \A x \in Occupied(cells) :
               /\ cells[x][1].number \in {2, 4}
               /\ cells[x][1].state = "New"
               /\ cells[x][1].previous_position = None
        /\ enable_new_tiles

\* Grid::default() placed a 2 and a 4.
C5_Witness ==
    /\ op = "default"
    /\ \E x, y \in Occupied(cells) : cells[x][1].number = 2 /\ cells[y][1].number = 4

\* C6: once spawning is disabled it stays disabled: no step re-enables it,
\* no step spawns a tile or raises the number of occupied cells, and no step
\* creates a tile in state New.
C6_DisabledForEver ==
    [][~enable_new_tiles =>
          /\ ~enable_new_tiles'
          /\ cells' = pre_spawn'
          /\ Cardinality(Occupied(cells')) <= Cardinality(Occupied(cells))
          /\ \A x \in Occupied(cells') :
                 cells'[x][1].state = "New" => cells'[x] = cells[x]]_vars

\* Two moves ran after disable_new_tiles; the second moved tiles on a grid
\* with empty cells.
C6_Witness ==
    /\ QuietMove
    /\ quiet_moves = 2
    /\ moved
    /\ Vacant(pre_spawn) # {}
    /\ cells = pre_spawn

\* The indices of ret whose entry lies at cell x.
EntriesAt(x) == {k \in 1 .. Len(ret) : ret[k][1] = from_index(x)}

\* C7: tiles() yields nothing for an empty cell, the tile alone for a tile
\* that is not Merged, and for a Merged tile the tile and a ghost with half
\* its number, state Static and the same previousPosition; so it yields as
\* many entries as there are occupied cells plus Merged tiles.
C7_TilesEntries ==
    /\ Len(ret) = Cardinality(Occupied(cells))
                  + Cardinality({x \in Occupied(cells) : cells[x][1].state = "Merged"})
    /\ \A x \in Indices :
           IF cells[x] = None
           THEN EntriesAt(x) = {}
           ELSE IF cells[x][1].state = "Merged"
                THEN \E k1, k2 \in EntriesAt(x) :
                         /\ k1 # k2
                         /\ EntriesAt(x) = {k1, k2}
                         /\ ret[k1][2] = cells[x][1]
                         /\ ret[k2][2].state = "Static"
                         /\ 2 * ret[k2][2].number = cells[x][1].number
                         /\ ret[k2][2].previous_position = cells[x][1].previous_position
                ELSE \E k \in EntriesAt(x) :
                         /\ EntriesAt(x) = {k}
                         /\ ret[k][2] = cells[x][1]

\* The view was drawn from a grid holding a Merged, a Static and a New tile.
C7_Witness ==
    /\ \E x \in Occupied(cells) : cells[x][1].state = "Merged"
    /\ \E x \in Occupied(cells) : cells[x][1].state = "Static"
    /\ \E x \in Occupied(cells) : cells[x][1].state = "New"
    /\ Len(ret) > Cardinality(Occupied(cells))

\* What one add_random_tile call did, from grid `from` to grid `to`.
SpawnStep(from, to) ==
    LET filled == {x \in Indices : from[x] = None /\ to[x] # None}
    IN  /\ Cardinality(filled) <= 1
        /\ \A x \in filled :
               /\ to[x][1].number \in {2, 4}
               /\ to[x][1].state = "New"
               /\ to[x][1].previous_position = None
        /\ \A x \in Indices \ filled : to[x] = from[x]

\* Every empty cell of `from` is where some outcome of add_random_tile puts
\* the tile, and no other cell is.
SpawnAnywhere(from) ==
    {{x \in Indices : g[x] # from[x]} : g \in add_random_tile(from, TRUE)}
        = {{x} : x \in Vacant(from)}

\* C8: a spawned tile goes into a cell that was empty, with number 2 or 4,
\* state New and no previousPosition; the tiles already there are untouched;
\* and every cell that was empty is a possible place for it.
C8_SpawnFrame ==
    /\ op = "move" =>
           /\ SpawnStep(pre_spawn, cells)
           /\ Spawned # {} => SpawnAnywhere(pre_spawn)
    /\ op = "default" =>
           /\ SpawnStep(before, pre_spawn) /\ SpawnAnywhere(before)
           /\ SpawnStep(pre_spawn, cells) /\ SpawnAnywhere(pre_spawn)
           /\ Cardinality(Spawned) = 1

\* A move spawned a tile next to tiles that slid, with other cells left empty.
C8_Witness ==
    /\ op = "move"
    /\ Cardinality(Spawned) = 1
    /\ Cardinality(Vacant(cells)) >= 2
    /\ \E x \in Occupied(pre_spawn) :
           pre_spawn[x][1].previous_position # Some(from_index(x))

\* Cell x lies in line l: row l when horizontal, column l otherwise.
InLine(x, horizontal, l) == IF horizontal THEN x \div Side = l ELSE x % Side = l

\* The grid with every cell outside line l emptied.
OnlyLine(cs, horizontal, l) ==
    [x \in Indices |-> IF InLine(x, horizontal, l) THEN cs[x] ELSE None]

\* C9: a Left or Right move keeps every tile in its row and an Up or Down
\* move keeps every tile in its column, and what a move leaves in a line is
\* what it leaves there when that line is the only one holding tiles.
C9_LinesIndependent ==
    op = "move" =>
        LET horizontal == dir \in {"Left", "Right"}
        IN  /\ \A x \in Occupied(pre_spawn) :
                   \E y \in Occupied(before) :
                       /\ pre_spawn[x][1].previous_position = Some(from_index(y))
                       /\ IF horizontal
                          THEN y \div Side = x \div Side
                          ELSE y % Side = x % Side
            /\ \A l \in 0 .. (Side - 1) :
                   \A alone \in {slide(OnlyLine(before, horizontal, l), dir).cells} :
                       \A x \in Indices :
                           alone[x] = IF InLine(x, horizontal, l) THEN pre_spawn[x] ELSE None

\* A Right move met a tile in the last column of a row and an equal tile in
\* the first column of the next row; both stayed in their rows.
C9_Witness ==
    /\ op = "move"
    /\ dir = "Right"
    /\ \E r \in 0 .. (Side - 2) :
           /\ before[r * Side + (Side - 1)] # None
           /\ before[(r + 1) * Side] # None
           /\ TileEq(before[r * Side + (Side - 1)][1], before[(r + 1) * Side][1])
           /\ pre_spawn[(r + 1) * Side + (Side - 1)] # None
           /\ pre_spawn[(r + 1) * Side + (Side - 1)][1].state = "Static"

\* C10: with spawning disabled, what a move leaves depends on the numbers in
\* the cells and on the direction alone: it is, in every field, what the same
\* move leaves of the grid make_grid builds from the same numbers.  Two grids
\* with the same numbers are therefore equal in every field after their first
\* move, and stay equal over the moves that follow.
C10_NumbersDecide ==
    QuietMove => cells = slide(make_grid(Numbers(before)), dir).cells

\* A move with spawning disabled merged tiles on a grid that still carried a
\* Merged tile and moved tiles from the move before.
C10_Witness ==
    /\ QuietMove
    /\ before # make_grid(Numbers(before))
    /\ \E x \in Occupied(before) : before[x][1].state = "Merged"
    /\ \E x \in Occupied(before) :
           before[x][1].previous_position # Some(from_index(x))
    /\ \E x \in Occupied(cells) : cells[x][1].state = "Merged"

\* n is 1, 2, 4, 8, ...
RECURSIVE IsPowerOfTwo(_)
IsPowerOfTwo(n) ==
    IF n <= 1 THEN n = 1 ELSE n % 2 = 0 /\ IsPowerOfTwo(n \div 2)

\* C11: after Grid::default() and after every operation that follows, with
\* spawning enabled or disabled, every cell is empty or holds one tile, and
\* the number of every tile is a power of two and at least 2.
C11_PowersOfTwo ==
    \A x \in Indices :
        /\ Len(cells[x]) <= 1
        /\ cells[x] # None =>
               /\ cells[x][1].number >= 2
               /\ IsPowerOfTwo(cells[x][1].number)

\* The first move on the grid of Grid::default() merged its two 4s into an 8
\* and spawned a tile.
C11_Witness ==
    /\ SpawningMove
    /\ Cardinality(Occupied(before)) = 2
    /\ \A x \in Occupied(before) : before[x][1] = TileNew(4)
    /\ \E x \in Occupied(pre_spawn) :
           pre_spawn[x][1].number = 8 /\ pre_spawn[x][1].state = "Merged"
    /\ Cardinality(Spawned) = 1

\* Row and column are both in 0..3.
InBounds(position) ==
    /\ position.i \in 0 .. (Side - 1)
    /\ position.j \in 0 .. (Side - 1)

\* C12: during a move, every position handed to Grid::get or used to index
\* the cell array has its row and column in 0..3, so its index is in 0..15
\* and names the cell of that row and column; and every position produced by
\* adding the direction is put to the out-of-bounds test right away, before
\* any use.
C12_AccessesInBounds ==
    op = "move" =>
        \A k \in 1 .. Len(log) :
            /\ log[k].event \in {"get", "index"} =>
                   /\ InBounds(log[k].position)
                   /\ index(log[k].position) \in Indices
                   /\ from_index(index(log[k].position)) = log[k].position
            /\ log[k].event = "add" =>
                   /\ k < Len(log)
                   /\ log[k + 1] = Event("test", log[k].position)

\* A Right move produced a position in column 4 of a row above the last,
\* whose index would name the first cell of the next row, and also moved a
\* tile, writing two cells.
C12_Witness ==
    /\ op = "move"
    /\ dir = "Right"
    /\ \E k \in 1 .. Len(log) :
           /\ log[k].event = "add"
           /\ log[k].position.j = Side
           /\ log[k].position.i < Side - 1
           /\ before[(log[k].position.i + 1) * Side] # None
    /\ \E k \in 1 .. Len(log) : log[k].event = "index"

\* The cell that is k-th from the target edge in line l.
CellOf(direction, l, k) ==
    CASE direction = "Left"  -> l * Side + (k - 1)
      [] direction = "Right" -> l * Side + (Side - k)
      [] direction = "Up"    -> (k - 1) * Side + l
      [] direction = "Down"  -> (Side - k) * Side + l

\* For each number MergePairs yields: was it made from a pair?
RECURSIVE MergeMarks(_)
MergeMarks(line) ==
    IF Len(line) = 0
    THEN << >>
    ELSE IF Len(line) >= 2 /\ line[1] = line[2]
         THEN <<TRUE>> \o MergeMarks(Tail(Tail(line)))
         ELSE <<FALSE>> \o MergeMarks(Tail(line))

\* The state the reference line operator gives the k-th cell of a line:
\* "Merged" for a number made from a pair, "Static" for a number carried
\* over, "None" for an empty cell.
RefStates(line) ==
    LET marks == MergeMarks(SelectSeq(line, NonZero))
    IN  [k \in 1 .. Side |->
            IF k > Len(marks) THEN "None" ELSE IF marks[k] THEN "Merged" ELSE "Static"]

StateAt(cs, x) == IF cs[x] = None THEN "None" ELSE cs[x][1].state

\* C13: after a move, a tile is Merged exactly when a merge of that move
\* produced it, New exactly when that move spawned it, and Static otherwise;
\* so at most one tile is New, none is New after a move that moved nothing or
\* ran with spawning disabled, and no New or Merged is left from earlier.
C13_StatesOfTheMove ==
    op = "move" =>
        /\ \A l \in 0 .. (Side - 1) :
               \A k \in 1 .. Side :
                   StateAt(pre_spawn, CellOf(dir, l, k))
                       = RefStates(LineOf(Numbers(before), dir, l))[k]
        /\ \A x \in Occupied(cells) :
               /\ cells[x][1].state = "New" <=> x \in Spawned
               /\ x \notin Spawned => cells[x] = pre_spawn[x]
        /\ Cardinality({x \in Occupied(cells) : cells[x][1].state = "New"}) <= 1
        /\ (~moved \/ ~enable_new_tiles) =>
               \A x \in Occupied(cells) : cells[x][1].state # "New"

\* A move on a grid of New tiles merged two of them, carried a third over
\* and spawned one: the grid holds a Merged, a Static and a single New tile.
C13_Witness ==
    /\ SpawningMove
    /\ \A x \in Occupied(before) : before[x][1].state = "New"
    /\ \E x \in Occupied(cells) : cells[x][1].state = "Merged"
    /\ \E x \in Occupied(cells) :
           /\ cells[x][1].state = "Static"
           /\ before[x] # None
           /\ cells[x][1].number = before[x][1].number
    /\ \E x \in Spawned : cells[x][1].state = "New"

\* C14 as stated: after a move, every Static tile stands in the cell it
\* occupied before the move, its previousPosition being its own cell, and was
\* not produced by a merge.
C14_StaticUnmoved ==
    op = "move" =>
        \A x \in Occupied(cells) :
            cells[x][1].state = "Static" =>
                /\ cells[x][1].previous_position = Some(from_index(x))
                /\ before[x] # None
                /\ cells[x][1].number = before[x][1].number

\* C14 amended: after a move, every Static tile is an unmerged carryover: it
\* was not spawned by the move, the reference line operator carries its
\* number over without a merge, and its previousPosition is a cell that held
\* a tile of the same number before the move.  That cell is its current cell
\* when the tile did not slide, and another cell of its line when it slid.
C14_StaticUnmerged ==
    op = "move" =>
        \A x \in Occupied(cells) :
            cells[x][1].state = "Static" =>
                /\ x \notin Spawned
                /\ \E l \in 0 .. (Side - 1), k \in 1 .. Side :
                       /\ CellOf(dir, l, k) = x
                       /\ RefStates(LineOf(Numbers(before), dir, l))[k] = "Static"
                /\ \E y \in Occupied(before) :
                       /\ cells[x][1].previous_position = Some(from_index(y))
                       /\ before[y][1].number = cells[x][1].number

\* A move left a Static tile that slid, its previousPosition another cell,
\* next to a Static tile that stayed where it was.
C14_Witness ==
    /\ op = "move"
    /\ \E x \in Occupied(cells) :
           /\ cells[x][1].state = "Static"
           /\ cells[x][1].previous_position # Some(from_index(x))
    /\ \E x \in Occupied(cells) :
           /\ cells[x][1].state = "Static"
           /\ cells[x][1].previous_position = Some(from_index(x))

\* The places (counted from the target edge) of the tiles of a line.
Places(line) == SelectSeq([k \in 1 .. Side |-> k], LAMBDA k : line[k] # 0)

\* For each number MergePairs yields from the numbers at `places`: the place
\* the tile that ends there started from.  Of a pair that merges, the tile
\* nearer the target edge is absorbed and the farther one slides into it.
RECURSIVE MergeSources(_, _)
MergeSources(line, places) ==
    IF Len(places) = 0
    THEN << >>
    ELSE IF Len(places) >= 2 /\ line[places[1]] = line[places[2]]
         THEN <<places[2]>> \o MergeSources(line, Tail(Tail(places)))
         ELSE <<places[1]>> \o MergeSources(line, Tail(places))

RefSources(line) == MergeSources(line, Places(line))

\* The position of cell x, row and column.
RowOf(x) == x \div Side

ColumnOf(x) == x % Side

\* C15: after a move, every tile that the move did not spawn has as
\* previousPosition the cell it stood in before the move, for a Merged tile
\* the cell the sliding tile of the pair started from; these positions are in
\* bounds, differ from tile to tile, lie in the tile's row (Left, Right) or
\* column (Up, Down), and are not nearer the target edge than the tile is.
C15_PreviousPositions ==
    op = "move" =>
        /\ \A l \in 0 .. (Side - 1) :
               \A sources \in {RefSources(LineOf(Numbers(before), dir, l))} :
                   \A k \in 1 .. Len(sources) :
                       /\ sources[k] >= k
                       /\ before[CellOf(dir, l, sources[k])] # None
                       /\ \A x \in {CellOf(dir, l, k)}, y \in {CellOf(dir, l, sources[k])} :
                              /\ cells[x] # None
                              /\ cells[x][1].previous_position
                                     = Some([i |-> RowOf(y), j |-> ColumnOf(y)])
        /\ \A x \in Occupied(cells) \ Spawned :
               /\ Len(cells[x][1].previous_position) = 1
               /\ InBounds(cells[x][1].previous_position[1])
               /\ IF dir \in {"Left", "Right"}
                  THEN cells[x][1].previous_position[1].i = RowOf(x)
                  ELSE cells[x][1].previous_position[1].j = ColumnOf(x)
               /\ CASE dir = "Left"  -> cells[x][1].previous_position[1].j >= ColumnOf(x)
                    [] dir = "Right" -> cells[x][1].previous_position[1].j <= ColumnOf(x)
                    [] dir = "Up"    -> cells[x][1].previous_position[1].i >= RowOf(x)
                    [] dir = "Down"  -> cells[x][1].previous_position[1].i <= RowOf(x)
        /\ \A x, y \in Occupied(cells) \ Spawned :
               x # y => cells[x][1].previous_position # cells[y][1].previous_position
        /\ \A x \in Spawned : cells[x][1].previous_position = None

\* A move merged a tile that came from two or more cells away, slid another
\* tile without a merge, and spawned a tile.
C15_Witness ==
    /\ op = "move"
    /\ Spawned # {}
    /\ \E x \in Occupied(cells) \ Spawned :
           /\ cells[x][1].state = "Merged"
           /\ \E y \in Indices :
                  /\ cells[x][1].previous_position = Some(from_index(y))
                  /\ y - x \notin {-Side, -1, 0, 1, Side}
    /\ \E x \in Occupied(cells) \ Spawned :
           /\ cells[x][1].state = "Static"
           /\ cells[x][1].previous_position # Some(from_index(x))

\* Cell x lies on the edge the direction points to.
AtEdge(x, direction) ==
    CASE direction = "Left"  -> ColumnOf(x) = 0
      [] direction = "Right" -> ColumnOf(x) = Side - 1
      [] direction = "Up"    -> RowOf(x) = 0
      [] direction = "Down"  -> RowOf(x) = Side - 1

\* The cell next to x in the direction (x is not on the edge).
Neighbour(x, direction) ==
    CASE direction = "Left"  -> x - 1
      [] direction = "Right" -> x + 1
      [] direction = "Up"    -> x - Side
      [] direction = "Down"  -> x + Side

\* The tile of cell x of grid cs can neither slide nor merge.
Stuck(cs, x, direction) ==
    \/ AtEdge(x, direction)
    \/ /\ cs[Neighbour(x, direction)] # None
       /\ \/ cs[Neighbour(x, direction)][1].number # cs[x][1].number
          \/ cs[Neighbour(x, direction)][1].state = "Merged"

\* Cells x and y lie in one line along the direction.
SameLine(x, y, direction) ==
    IF direction \in {"Left", "Right"} THEN RowOf(x) = RowOf(y) ELSE ColumnOf(x) = ColumnOf(y)

\* What one traverse_from call from cell `start` did to grid `from`, leaving
\* grid `to` and returning `flag`.
TraverseFrame(from, to, start, direction, flag) ==
    /\ flag = ~(from[start] = None \/ Stuck(from, start, direction))
    /\ ~flag => to = from
    /\ flag =>
           \E dest \in Indices \ {start} :
               /\ SameLine(start, dest, direction)
               /\ {x \in Indices : to[x] # from[x]} = {start, dest}
               /\ to[start] = None
               /\ \/ to[dest] = from[start]
                  \/ to[dest] = Some([number |-> 2 * from[start][1].number,
                                      state |-> "Merged",
                                      previous_position |->
                                          from[start][1].previous_position])

\* C16: a traverse_from call either returns false and leaves the 16 cells as
\* they were, which it does exactly when the start cell is empty or its tile
\* can neither slide nor merge, or returns true and changes exactly two
\* cells: the start cell becomes empty and another cell of the same line
\* holds the moving tile, doubled and Merged if it merged.  The spawning flag
\* is left as it was.
C16_TraverseFrame ==
    [][op' = "traverse_from" =>
          /\ TraverseFrame(cells, cells', index(build_traversal(dir)[step']), dir,
                           returned')
          /\ enable_new_tiles' = enable_new_tiles]_vars

\* A call returned true for a tile that merged into a cell two or more
\* cells away, on a grid where an earlier call had returned true as well.
C16_Witness ==
    /\ op = "traverse_from"
    /\ returned
    /\ \E start \in {index(build_traversal(dir)[step])} :
           \E dest \in Occupied(cells) :
               /\ cells[dest] # before[dest]
               /\ cells[dest][1].state = "Merged"
               /\ before[dest] # None
               /\ dest - start \notin {-Side, -1, 0, 1, Side}
    /\ \E x \in Occupied(before) :
           before[x][1].previous_position # Some(from_index(x))

\* How many cells lie between a position and the edge the direction points to.
DistanceToEdge(position, direction) ==
    CASE direction = "Left"  -> position.j
      [] direction = "Right" -> (Side - 1) - position.j
      [] direction = "Up"    -> position.i
      [] direction = "Down"  -> (Side - 1) - position.i

\* C17: the traversal of a move holds each of the 16 positions of the grid
\* once, and of two positions of one line along the direction the one nearer
\* the target edge comes first.
C17_TraversalOrder ==
    dir \in Directions =>
        \A traversal \in {build_traversal(dir)} :
            /\ Len(traversal) = NumCells
            /\ \A i, j \in 0 .. (Side - 1) :
                   Cardinality({k \in 1 .. Len(traversal) :
                                   traversal[k] = [i |-> i, j |-> j]}) = 1
            /\ \A k1, k2 \in 1 .. Len(traversal) :
                   (/\ k1 # k2
                    /\ SameLine(index(traversal[k1]), index(traversal[k2]), dir)
                    /\ DistanceToEdge(traversal[k1], dir)
                           < DistanceToEdge(traversal[k2], dir)) => k1 < k2

\* The loop of a Right move has gone through the whole traversal, which
\* began in the last column, and two tiles of one row have moved.
C17_Witness ==
    /\ op = "traverse_from"
    /\ dir = "Right"
    /\ step = NumCells
    /\ build_traversal(dir)[1].j = Side - 1
    /\ moved
    /\ \E x, y \in Occupied(cells) :
           /\ x # y
           /\ RowOf(x) = RowOf(y)
           /\ cells[x][1].previous_position # Some(from_index(x))
           /\ cells[y][1].previous_position # Some(from_index(y))

\* The cells of x's line that lie between x and the edge the direction
\* points to.
TowardsEdge(x, direction) ==
    {y \in Indices :
        /\ SameLine(x, y, direction)
        /\ DistanceToEdge(from_index(y), direction)
               < DistanceToEdge(from_index(x), direction)}

\* C18: after a move, every tile that the move did not spawn has next to it,
\* in the direction of the move, the edge of the grid or an occupied cell;
\* so no cell between such a tile and the target edge is empty.
C18_Packed ==
    op = "move" =>
        \A x \in Occupied(cells) \ Spawned :
            /\ AtEdge(x, dir) \/ cells[Neighbour(x, dir)] # None
            /\ \A y \in TowardsEdge(x, dir) : cells[y] # None

\* A move slid a tile over two or more empty cells, and the tile it spawned
\* has an empty cell between itself and the target edge.
C18_Witness ==
    /\ op = "move"
    /\ \E x \in Occupied(cells) \ Spawned :
           \E y \in Indices :
               /\ cells[x][1].previous_position = Some(from_index(y))
               /\ Cardinality(TowardsEdge(y, dir) \ TowardsEdge(x, dir)) >= 3
    /\ \E x \in Spawned : \E y \in TowardsEdge(x, dir) : cells[y] = None

\* A grid seen left to right reversed: cell (i, j) holds what (i, 3 - j) held.
Mirror(cs) ==
    [x \in Indices |-> cs[RowOf(x) * Side + ((Side - 1) - ColumnOf(x))]]

\* A grid with rows and columns exchanged: cell (i, j) holds what (j, i) held.
Transpose(cs) == [x \in Indices |-> cs[ColumnOf(x) * Side + RowOf(x)]]

\* The number and the state of the tile of every cell.
NumbersAndStates(cs) ==
    [x \in Indices |->
        IF cs[x] = None THEN None ELSE Some(<<cs[x][1].number, cs[x][1].state>>)]

\* C19: with spawning disabled, a Right move leaves the mirror image of what
\* a Left move leaves of the mirror image of the grid, and the transpose of
\* what a Down move leaves of its transpose; a Left move leaves the transpose
\* of what an Up move leaves of its transpose.  Numbers and states are
\* compared, cell by cell.
C19_DirectionsSymmetric ==
    QuietMove =>
        /\ dir = "Right" =>
               /\ NumbersAndStates(slide(Mirror(before), "Left").cells)
                      = Mirror(NumbersAndStates(cells))
               /\ NumbersAndStates(slide(Transpose(before), "Down").cells)
                      = Transpose(NumbersAndStates(cells))
        /\ dir = "Left" =>
               NumbersAndStates(slide(Transpose(before), "Up").cells)
                   = Transpose(NumbersAndStates(cells))

\* A Right move with spawning disabled merged tiles of a grid that is neither
\* its own mirror image nor its own transpose and that carried the states of
\* the move before.
C19_Witness ==
    /\ QuietMove
    /\ dir = "Right"
    /\ quiet_moves = 2
    /\ Mirror(Numbers(before)) # Numbers(before)
    /\ Transpose(Numbers(before)) # Numbers(before)
    /\ \E x \in Occupied(before) : before[x][1].state = "Merged"
    /\ \E x \in Occupied(cells) : cells[x][1].state = "Merged"
    /\ \E x \in Occupied(cells) : cells[x][1].state = "Static"

\* C20: with spawning disabled, once a grid has been moved three times in a
\* row in one direction, a further move in that direction moves no tile and
\* leaves every number where it is.
C20_FixedPointInThree ==
    (QuietMove /\ quiet_moves > 3) =>
        /\ ~moved
        /\ Numbers(cells) = Numbers(before)
        /\ Occupied(cells) = Occupied(before)

\* The fourth move in a row found nothing to do on a grid whose third move
\* had still merged tiles.
C20_Witness ==
    /\ QuietMove
    /\ quiet_moves = 4
    /\ ~moved
    /\ \E x \in Occupied(before) : before[x][1].state = "Merged"

====
